---- MODULE Spec2Model ----
(***************************************************************************)
(* nesa2csv: conversion of weather-station log lines to CSV.               *)
(*                                                                         *)
(* Two programs are modelled, selected by the variable `variant`:          *)
(*   "filter"   src/nesa2csv.go, lines 1-186 (recency filtering, cutoff)   *)
(*   "nofilter" src/unnamed/part_000 (no cutoff)                           *)
(* Lines 188-323 of src/nesa2csv.go hold an earlier program (a table keyed *)
(* by measurement ID alone, no zero stripping or padding); it is not       *)
(* modelled.                                                               *)
(*                                                                         *)
(* A Go string is a sequence of one-character strings, so that Split,      *)
(* TrimLeft, HasPrefix, zeroPad and time.Parse are computed character by   *)
(* character.  Column names are kept as atoms (TLA+ strings).              *)
(***************************************************************************)
EXTENDS Integers, Sequences, FiniteSets, TLC

VARIABLES variant, cutoff, files, idx, lineNo, pc, writeHeader, output, log,
          line, record

vars == <<variant, cutoff, files, idx, lineNo, pc, writeHeader, output, log,
          line, record>>

(***************************************************************************)
(* Bounds of the model.                                                    *)
(***************************************************************************)
MaxFiles == 2
MaxLines == 2
MaxTail == 6

(***************************************************************************)
(* Strings.                                                                *)
(***************************************************************************)
Digits == <<"0", "1", "2", "3", "4", "5", "6", "7", "8", "9">>

isDigit(s, i) == i < Len(s) /\ \E n \in 1..10 : Digits[n] = s[i + 1]

DigitVal(c) == (CHOOSE n \in 1..10 : Digits[n] = c) - 1

RECURSIVE atoi(_)
atoi(s) == IF s = <<>> THEN 0
           ELSE 10 * atoi(SubSeq(s, 1, Len(s) - 1)) + DigitVal(s[Len(s)])

AllDigits(s) == \A i \in 1..Len(s) : isDigit(s, i - 1)

\* strings.Split(line, ","): always at least one field
RECURSIVE Split(_)
Split(s) ==
  IF \E i \in 1..Len(s) : s[i] = ","
  THEN LET c == CHOOSE i \in 1..Len(s) : s[i] = "," /\ \A j \in 1..(i - 1) : s[j] # ","
       IN  <<SubSeq(s, 1, c - 1)>> \o Split(SubSeq(s, c + 1, Len(s)))
  ELSE <<s>>

\* strings.HasPrefix(line, "S,")
HasPrefix(s) == Len(s) >= 2 /\ s[1] = "S" /\ s[2] = ","

\* strings.TrimLeft(s, "0")
RECURSIVE TrimLeft(_)
TrimLeft(s) == IF s # <<>> /\ s[1] = "0" THEN TrimLeft(Tail(s)) ELSE s

\* the inverse of Split, used to write the input lines down
RECURSIVE Join(_)
Join(fs) == IF Len(fs) = 0 THEN <<>>
            ELSE IF Len(fs) = 1 THEN fs[1]
            ELSE fs[1] \o <<",">> \o Join(Tail(fs))

\* fields[i] with Go's zero-based index
Field(fields, i) == fields[i + 1]

\* zeroPad: a single character gets a leading "0"
zeroPad(num) == IF Len(num) = 1 THEN <<"0">> \o num ELSE num

(***************************************************************************)
(* time.Parse("2006-01-02T15:04:05", value) and Time.Before.               *)
(* A time is <<year, month, day, hour, minute, second, nanosecond>> (UTC). *)
(***************************************************************************)
NoTime == <<0, 0, 0, 0, 0, 0, 0>>

\* the state of a parse: the numbers read so far and the text left
Parsed(nums, rest) == [ok |-> TRUE, nums |-> nums, rest |-> rest]

Bad == [ok |-> FALSE, nums |-> <<>>, rest |-> <<>>]

\* the four-digit year of layout element 2006
getyear(p) ==
  IF ~p.ok \/ Len(p.rest) < 4 \/ ~AllDigits(SubSeq(p.rest, 1, 4)) THEN Bad
  ELSE Parsed(Append(p.nums, atoi(SubSeq(p.rest, 1, 4))),
              SubSeq(p.rest, 5, Len(p.rest)))

\* getnum: one or two digits, exactly two when fixed; then the range check
\* lo <= n <= hi of the layout element
getnum(p, fixed, lo, hi) ==
  IF ~p.ok \/ ~isDigit(p.rest, 0) THEN Bad
  ELSE IF ~isDigit(p.rest, 1)
       THEN IF fixed \/ DigitVal(p.rest[1]) < lo THEN Bad
            ELSE Parsed(Append(p.nums, DigitVal(p.rest[1])), Tail(p.rest))
       ELSE LET n == 10 * DigitVal(p.rest[1]) + DigitVal(p.rest[2])
            IN  IF n < lo \/ n > hi THEN Bad
                ELSE Parsed(Append(p.nums, n), SubSeq(p.rest, 3, Len(p.rest)))

\* a literal character of the layout
skip(p, c) ==
  IF p.ok /\ p.rest # <<>> /\ p.rest[1] = c THEN Parsed(p.nums, Tail(p.rest))
  ELSE Bad

RECURSIVE Pow10(_)
Pow10(k) == IF k <= 0 THEN 1 ELSE 10 * Pow10(k - 1)

\* the number of characters of a fractional second (".", then digits)
FracLen(v) ==
  IF Len(v) >= 2 /\ v[1] = "." /\ isDigit(v, 1)
  THEN CHOOSE n \in 2..Len(v) :
         /\ \A k \in 2..n : isDigit(v, k - 1)
         /\ (n = Len(v) \/ ~isDigit(v, n))
  ELSE 0

\* parseNanoseconds: at most nine digits count, scaled to nanoseconds
parseNanoseconds(v, nbytes) ==
  IF nbytes > 10 THEN atoi(SubSeq(v, 2, 10))
  ELSE atoi(SubSeq(v, 2, nbytes)) * Pow10(10 - nbytes)

\* a fractional second after the seconds field is accepted though the layout
\* has none
getfrac(p) ==
  IF ~p.ok THEN Bad
  ELSE IF FracLen(p.rest) = 0 THEN Parsed(Append(p.nums, 0), p.rest)
  ELSE Parsed(Append(p.nums, parseNanoseconds(p.rest, FracLen(p.rest))),
              SubSeq(p.rest, FracLen(p.rest) + 1, Len(p.rest)))

isLeap(year) == year % 4 = 0 /\ (year % 100 # 0 \/ year % 400 = 0)

daysIn(month, year) ==
  IF month = 2 THEN (IF isLeap(year) THEN 29 ELSE 28)
  ELSE IF month \in {4, 6, 9, 11} THEN 30 ELSE 31

\* the end of the parse: no text may be left, and the day must exist
finish(p) ==
  IF p.ok /\ p.rest = <<>> /\ p.nums[3] >= 1
     /\ p.nums[3] <= daysIn(p.nums[2], p.nums[1])
  THEN [ok |-> TRUE, t |-> p.nums]
  ELSE [ok |-> FALSE, t |-> NoTime]

parseDate(value) ==
  getnum(skip(getnum(skip(getyear(Parsed(<<>>, value)), "-"), TRUE, 1, 12), "-"),
         TRUE, 0, 99)

parseClock(p) ==
  getfrac(getnum(skip(getnum(skip(getnum(skip(p, "T"), FALSE, 0, 23), ":"),
                             TRUE, 0, 59), ":"), TRUE, 0, 59))

ParseTime(value) == finish(parseClock(parseDate(value)))

RECURSIVE LexLess(_, _, _)
LexLess(a, b, k) ==
  IF k > Len(a) THEN FALSE
  ELSE IF a[k] # b[k] THEN a[k] < b[k]
  ELSE LexLess(a, b, k + 1)

RECURSIVE LexLessEq(_, _, _)
LexLessEq(a, b, k) ==
  IF k > Len(a) THEN TRUE
  ELSE IF a[k] # b[k] THEN a[k] < b[k]
  ELSE LexLessEq(a, b, k + 1)

\* Before with the cutoff instant itself counted as too old
NotAfter(t, u) == LexLessEq(t, u, 1)

\* recordTime.Before(cutoff)
Before(t, u) == LexLess(t, u, 1)

(***************************************************************************)
(* Static tables.  A measurement or processing ID is a string of the       *)
(* input; a column name is an atom.                                        *)
(***************************************************************************)
Triple(m, p, name) == [mid |-> m, pid |-> p, name |-> name]

measurementMapFilter ==
  { Triple(<<"1">>, <<"2">>, "Temperature_Avg"),
    Triple(<<"1">>, <<"3">>, "Temperature_Min"),
    Triple(<<"1">>, <<"4">>, "Temperature_Max"),
    Triple(<<"2">>, <<"2">>, "Humidity_Avg"),
    Triple(<<"2">>, <<"3">>, "Humidity_Min"),
    Triple(<<"2">>, <<"4">>, "Humidity_Max"),
    Triple(<<"9">>, <<"2">>, "Windspeed_Avg"),
    Triple(<<"9">>, <<"3">>, "Windspeed_Min"),
    Triple(<<"9">>, <<"4">>, "Windspeed_Max"),
    Triple(<<"4">>, <<"2">>, "Wind Direction_Avg"),
    Triple(<<"4">>, <<"3">>, "Wind Direction_Min"),
    Triple(<<"4">>, <<"4">>, "Wind Direction_Max"),
    Triple(<<"1", "3">>, <<"2">>, "Pressure_Avg"),
    Triple(<<"1", "3">>, <<"3">>, "Pressure_Min"),
    Triple(<<"1", "3">>, <<"4">>, "Pressure_Max"),
    Triple(<<"1", "0">>, <<"7">>, "Rainfall_Acc"),
    Triple(<<"5", "1">>, <<"2">>, "Soiltemperature10_Avg"),
    Triple(<<"1", "0", "1">>, <<"2">>, "Soiltemperature20_Avg"),
    Triple(<<"1", "5", "1">>, <<"2">>, "Soiltemperature50_Avg"),
    Triple(<<"2", "0", "1">>, <<"2">>, "Soiltemperature100_Avg") }

measurementMapNoFilter ==
  { Triple(<<"1">>, <<"2">>, "Temperature_Avg"),
    Triple(<<"1">>, <<"3">>, "Temperature_Min"),
    Triple(<<"1">>, <<"4">>, "Temperature_Max"),
    Triple(<<"2">>, <<"2">>, "Humidity_Avg"),
    Triple(<<"2">>, <<"3">>, "Humidity_Min"),
    Triple(<<"2">>, <<"4">>, "Humidity_Max"),
    Triple(<<"9">>, <<"2">>, "Windspeed_Avg"),
    Triple(<<"9">>, <<"3">>, "Windspeed_Min"),
    Triple(<<"9">>, <<"4">>, "Windspeed_Max"),
    Triple(<<"4">>, <<"2">>, "Wind Direction_Avg"),
    Triple(<<"4">>, <<"3">>, "Wind Direction_Min"),
    Triple(<<"4">>, <<"4">>, "Wind Direction_Max"),
    Triple(<<"1", "3">>, <<"2">>, "Pressure_Avg"),
    Triple(<<"1", "3">>, <<"3">>, "Pressure_Min"),
    Triple(<<"1", "3">>, <<"4">>, "Pressure_Max") }

measurementMap(v) ==
  IF v = "filter" THEN measurementMapFilter ELSE measurementMapNoFilter

requiredMeasurementsFilter ==
  <<"Temperature_Avg", "Humidity_Avg", "Windspeed_Avg", "Wind Direction_Avg",
    "Pressure_Avg", "Rainfall_Acc", "Windspeed_Max", "Soiltemperature10_Avg",
    "Soiltemperature20_Avg", "Soiltemperature50_Avg", "Soiltemperature100_Avg">>

requiredMeasurementsNoFilter ==
  <<"Temperature_Avg", "Humidity_Avg", "Windspeed_Avg", "Wind Direction_Avg",
    "Pressure_Avg">>

requiredMeasurements(v) ==
  IF v = "filter" THEN requiredMeasurementsFilter ELSE requiredMeasurementsNoFilter

\* measurementMap[measurementID][processingID], "" when either key is missing
measurementName(v, mid, pid) ==
  IF \E e \in measurementMap(v) : e.mid = mid /\ e.pid = pid
  THEN (CHOOSE e \in measurementMap(v) : e.mid = mid /\ e.pid = pid).name
  ELSE ""

(***************************************************************************)
(* parseRow.                                                               *)
(***************************************************************************)
\* a Go map: a function on the set of its keys
EmptyMap == [n \in {} |-> <<>>]

MapPut(m, k, x) == [n \in (DOMAIN m) \cup {k} |-> IF n = k THEN x ELSE m[n]]

\* m[k] of a map of strings: the empty string for a missing key
MapGet(m, k) == IF k \in DOMAIN m THEN m[k] ELSE <<>>

\* "*" (missing data) becomes the empty string, in the filtering program only
StoredValue(v, value) ==
  IF v = "filter" /\ value = <<"*">> THEN <<>> ELSE value

\* the loop keeping the first value stored under a name
RECURSIVE FirstWinsLoop(_, _, _, _)
FirstWinsLoop(v, fields, i, values) ==
  IF ~(i < Len(fields) - 1) THEN values
  ELSE LET name == measurementName(v, Field(fields, i), Field(fields, i + 1))
       IN  IF name # "" /\ i + 2 < Len(fields) /\ name \notin DOMAIN values
           THEN FirstWinsLoop(v, fields, i + 3,
                  MapPut(values, name, StoredValue(v, Field(fields, i + 2))))
           ELSE FirstWinsLoop(v, fields, i + 3, values)

\* for i := 8; i < len(fields)-1; i += 3 { ... }
RECURSIVE ValuesLoop(_, _, _, _)
ValuesLoop(v, fields, i, values) ==
  IF ~(i < Len(fields) - 1) THEN values
  ELSE LET name == measurementName(v, Field(fields, i), Field(fields, i + 1))
       IN  IF name # "" /\ i + 2 < Len(fields)
           THEN ValuesLoop(v, fields, i + 3,
                  MapPut(values, name, StoredValue(v, Field(fields, i + 2))))
           ELSE ValuesLoop(v, fields, i + 3, values)

\* the timestamp with day and month exchanged
DayMonthSwapped(fields) ==
  Field(fields, 7) \o <<"-">> \o zeroPad(Field(fields, 5)) \o <<"-">>
    \o zeroPad(Field(fields, 6)) \o <<"T">> \o zeroPad(Field(fields, 2)) \o <<":">>
    \o zeroPad(Field(fields, 3)) \o <<":">> \o zeroPad(Field(fields, 4))

\* fmt.Sprintf("%s-%s-%sT%s:%s:%s", year, month, day, hour, minute, second)
timestampStr(fields) ==
  Field(fields, 7) \o <<"-">> \o zeroPad(Field(fields, 6)) \o <<"-">>
    \o zeroPad(Field(fields, 5)) \o <<"T">> \o zeroPad(Field(fields, 2)) \o <<":">>
    \o zeroPad(Field(fields, 3)) \o <<":">> \o zeroPad(Field(fields, 4))

Record(station, ts, values) ==
  [StationID |-> station, Timestamp |-> ts, Values |-> values]

\* Record{} and Record{Timestamp: ""}
ZeroRecord == Record(<<>>, <<>>, EmptyMap)

\* what a call of parseRow ends in: a record and an error ("" is nil), or a
\* run-time panic (index out of range)
Result(rec, err, panic) == [rec |-> rec, err |-> err, panic |-> panic]

\* the field-count check one too low
MinFieldsOffByOne == 7 - 1

\* len(fields) < 7
MinFields == 7

parseRow(v, ln, cut) ==
  LET fields == Split(ln)
  IN  IF Len(fields) < MinFields THEN Result(ZeroRecord, "invalid row", FALSE)
      ELSE IF Len(fields) <= 7 THEN Result(ZeroRecord, "", TRUE)   \* fields[7]
      ELSE LET ts == timestampStr(fields)
               tm == ParseTime(ts)
               rec == Record(TrimLeft(Field(fields, 1)), ts,
                             ValuesLoop(v, fields, 8, EmptyMap))
           IN  IF v = "filter" /\ ~tm.ok
               THEN Result(ZeroRecord, "invalid timestamp", FALSE)
               ELSE IF v = "filter" /\ Before(tm.t, cut)
               THEN Result(ZeroRecord, "", FALSE)
               ELSE Result(rec, "", FALSE)

(***************************************************************************)
(* The run: main, the walk callback and processFile.                       *)
(*                                                                         *)
(* files   the entries the walk visits, in visit order; an entry is a      *)
(*         regular .txt file (kind "txt"), a directory or another file     *)
(*         ("other"), or an entry the walk cannot access ("noaccess").     *)
(*         A .txt file opens or not; lines are the lines its scanner       *)
(*         delivers, and readErr tells whether the scan then fails.        *)
(* idx     the entry the walk is at; lineNo the next line of the scan      *)
(* pc      "walk" between entries, "scan" inside processFile's loop,       *)
(*         "done" after the walk, "panicked" after a run-time panic        *)
(* output  the rows handed to the csv writer (flushed when main returns    *)
(*         or panics); a row carries its fields and, for reading the       *)
(*         output back, whether it is the header or a data row             *)
(* log     what was printed to standard output                             *)
(* line, record   processFile's locals of the current loop iteration       *)
(***************************************************************************)
Entry(kind, opens, readErr, lines) ==
  [kind |-> kind, opens |-> opens, readErr |-> readErr, lines |-> lines]

Row(kind, fields) == [kind |-> kind, fields |-> fields]

\* append([]string{"station_id", "timestamp"}, requiredMeasurements...)
HeaderRow(v) == Row("header", <<"station_id", "timestamp">> \o requiredMeasurements(v))

\* the keys of a map in some order
RECURSIVE KeysOf(_)
KeysOf(S) == IF S = {} THEN <<>>
             ELSE LET k == CHOOSE x \in S : TRUE IN <<k>> \o KeysOf(S \ {k})

\* a row of StationID, Timestamp and every value the record stores
RowOfStoredValues(v, rec) ==
  Row("data", <<rec.StationID, rec.Timestamp>>
        \o [j \in 1..Cardinality(DOMAIN rec.Values) |->
              rec.Values[KeysOf(DOMAIN rec.Values)[j]]])

\* row := []string{StationID, Timestamp}; then Values[param] of every
\* required measurement
DataRow(v, rec) ==
  Row("data", <<rec.StationID, rec.Timestamp>>
        \o [j \in 1..Len(requiredMeasurements(v)) |->
              MapGet(rec.Values, requiredMeasurements(v)[j])])

NoLine == <<>>

NoResult == Result(ZeroRecord, "not called", FALSE)

\* the walk callback on a .txt file, up to processFile's open and header
processFileOpen ==
  /\ pc = "walk" /\ idx <= Len(files) /\ files[idx].kind = "txt"
  /\ IF ~files[idx].opens
     THEN /\ log' = log \o <<<<"Processing file", idx>>,
                             <<"Error processing file", idx, "cannot open file">>>>
          /\ idx' = idx + 1
          /\ UNCHANGED <<pc, lineNo, output>>
     ELSE /\ log' = Append(log, <<"Processing file", idx>>)
          /\ output' = IF variant = "nofilter" /\ writeHeader
                       THEN Append(output, HeaderRow(variant)) ELSE output
          /\ pc' = "scan"
          /\ lineNo' = 1
          /\ UNCHANGED idx
  /\ UNCHANGED <<variant, cutoff, files, writeHeader, line, record>>

\* one iteration of processFile's scan loop
processFileLine ==
  /\ pc = "scan" /\ lineNo <= Len(files[idx].lines)
  /\ LET ln == files[idx].lines[lineNo]
         r  == parseRow(variant, ln, cutoff)
     IN  /\ line' = ln
         /\ IF ~HasPrefix(ln)
            THEN /\ record' = NoResult
                 /\ lineNo' = lineNo + 1
                 /\ UNCHANGED <<pc, output, log>>
            ELSE /\ record' = r
                 /\ IF r.panic
                    THEN /\ pc' = "panicked"
                         /\ UNCHANGED <<lineNo, output, log>>
                    ELSE IF r.err # ""
                    THEN /\ log' = Append(log, <<"Skipping line due to error", r.err>>)
                         /\ lineNo' = lineNo + 1
                         /\ UNCHANGED <<pc, output>>
                    ELSE IF variant = "filter" /\ r.rec.Timestamp = <<>>
                    THEN /\ lineNo' = lineNo + 1
                         /\ UNCHANGED <<pc, output, log>>
                    ELSE /\ output' = Append(output, DataRow(variant, r.rec))
                         /\ lineNo' = lineNo + 1
                         /\ UNCHANGED <<pc, log>>
  /\ UNCHANGED <<variant, cutoff, files, idx, writeHeader>>

\* the end of the scan: scanner.Err(), processFile's return, and the
\* callback's handling of it
processFileReturn ==
  /\ pc = "scan" /\ lineNo > Len(files[idx].lines)
  /\ IF files[idx].readErr
     THEN /\ log' = Append(log, <<"Error processing file", idx, "error reading file">>)
          /\ UNCHANGED writeHeader
     ELSE /\ writeHeader' = FALSE
          /\ UNCHANGED log
  /\ idx' = idx + 1
  /\ pc' = "walk"
  /\ UNCHANGED <<variant, cutoff, files, lineNo, output, line, record>>

\* the callback on a directory or a file whose name does not end in .txt
walkOther ==
  /\ pc = "walk" /\ idx <= Len(files) /\ files[idx].kind = "other"
  /\ idx' = idx + 1
  /\ UNCHANGED <<variant, cutoff, files, lineNo, pc, writeHeader, output, log,
                 line, record>>

\* the callback called with an error: it returns one, which ends the walk
walkNoAccess ==
  /\ pc = "walk" /\ idx <= Len(files) /\ files[idx].kind = "noaccess"
  /\ log' = Append(log, <<"Error walking directory", idx>>)
  /\ pc' = "done"
  /\ UNCHANGED <<variant, cutoff, files, idx, lineNo, writeHeader, output,
                 line, record>>

\* the walk has visited every entry: main returns
mainReturn ==
  /\ pc = "walk" /\ idx > Len(files)
  /\ pc' = "done"
  /\ UNCHANGED <<variant, cutoff, files, idx, lineNo, writeHeader, output, log,
                 line, record>>

Next ==
  \/ processFileOpen
  \/ processFileLine
  \/ processFileReturn
  \/ walkOther
  \/ walkNoAccess
  \/ mainReturn

(***************************************************************************)
(* Inputs.                                                                 *)
(***************************************************************************)
\* cutoff := time.Now().AddDate(0, 0, -days): on a whole second, and half a
\* second later
Cutoffs == { <<2023, 6, 15, 9, 5, 0, 0>>, <<2023, 6, 15, 9, 5, 0, 500000000>> }

SeqsUpTo(S, n) == UNION { [1..k -> S] : k \in 0..n }

\* S,0012,9,5,0,15,6,2023,1,2,21.5
ExampleFields ==
  << <<"S">>, <<"0", "0", "1", "2">>, <<"9">>, <<"5">>, <<"0">>, <<"1", "5">>,
     <<"6">>, <<"2", "0", "2", "3">>, <<"1">>, <<"2">>, <<"2", "1", ".", "5">> >>

\* S,7,10,30,0,1,1,2020,9,4,3,1,2,-4
OldFields ==
  << <<"S">>, <<"7">>, <<"1", "0">>, <<"3", "0">>, <<"0">>, <<"1">>, <<"1">>,
     <<"2", "0", "2", "0">>, <<"9">>, <<"4">>, <<"3">>, <<"1">>, <<"2">>,
     <<"-", "4">> >>

\* the lines of the walks: a comment line, the example, an old record, a
\* line of seven fields and a line of two
WalkLines ==
  { Join(<< <<"#">>, <<"l", "o", "g">> >>),
    Join(ExampleFields),
    Join(OldFields),
    Join(SubSeq(ExampleFields, 1, 7)),
    Join(SubSeq(ExampleFields, 1, 2)) }

OtherEntry == Entry("other", FALSE, FALSE, <<>>)
NoAccessEntry == Entry("noaccess", FALSE, FALSE, <<>>)
CannotOpen == Entry("txt", FALSE, FALSE, <<>>)

EntriesOver(lineSeqs) ==
  {OtherEntry, NoAccessEntry, CannotOpen}
    \cup { Entry("txt", TRUE, e, ls) : e \in BOOLEAN, ls \in lineSeqs }

WalkEntries == EntriesOver(SeqsUpTo(WalkLines, MaxLines))

InitWith(fileSeqs) ==
  /\ variant \in {"filter", "nofilter"}
  /\ cutoff \in (IF variant = "filter" THEN Cutoffs ELSE {NoTime})
  /\ files \in fileSeqs
  /\ idx = 1
  /\ lineNo = 1
  /\ pc = "walk"
  /\ writeHeader = TRUE
  /\ output = <<>>
  /\ log = <<>>
  /\ line = NoLine
  /\ record = NoResult

\* walks of up to MaxFiles entries, of up to MaxLines lines each
Init == InitWith(UNION { [1..k -> WalkEntries] : k \in 1..MaxFiles })

Spec == Init /\ [][Next]_vars

(***************************************************************************)
(* Walks of one entry holding one line, the line drawn from a wide set:    *)
(* every combination of a few values of each of the seven fixed fields,    *)
(* every tail of up to MaxTail measurement fields, and lines of one to     *)
(* eight fields.                                                           *)
(***************************************************************************)
Stations == { <<"0", "0", "1", "2">>, <<"0", "0">>, <<"7">> }
Hours    == { <<"9">>, <<"0", "9">>, <<"2", "4">> }
Minutes  == { <<"5">>, <<"x">> }
Seconds  == { <<"0">>, <<"5", "9">>, <<"0", "0", ".", "5">> }
Days     == { <<"1", "5">>, <<"1">>, <<"3", "1">> }
Months   == { <<"6">>, <<"1">>, <<"1", "3">> }
Years    == { <<"2", "0", "2", "3">>, <<"2", "0", "2", "4">>, <<"2", "3">> }

HeadLines ==
  { Join(<< <<"S">>, st, h, mi, s, d, mo, y, <<"1">>, <<"2">>,
            <<"2", "1", ".", "5">> >>) :
      st \in Stations, h \in Hours, mi \in Minutes, s \in Seconds,
      d \in Days, mo \in Months, y \in Years }

\* the fields of a tail by position: measurement ID, processing ID, value
TailField(k) ==
  IF k % 3 = 1 THEN { <<"1">>, <<"1", "0">>, <<"7", "7">> }
  ELSE IF k % 3 = 2 THEN { <<"2">>, <<"3">>, <<"7">> }
  ELSE { <<"5">>, <<"*">>, <<>> }

RECURSIVE TailsOf(_)
TailsOf(n) ==
  IF n = 0 THEN { <<>> }
  ELSE { Append(t, f) : t \in TailsOf(n - 1), f \in TailField(n) }

TailLines ==
  { Join(SubSeq(ExampleFields, 1, 8) \o t) :
      t \in UNION { TailsOf(n) : n \in 0..MaxTail } }

ShortLines ==
  { Join(SubSeq(ExampleFields, 1, k)) : k \in 1..8 }
    \cup { Join(<< <<"D">> >> \o SubSeq(ExampleFields, 2, 11)),
           Join(<< <<"S">>, <<>> >>), <<>> }

RowLines == HeadLines \cup TailLines \cup ShortLines \cup WalkLines

RowEntries == EntriesOver({ <<l>> : l \in RowLines })

InitRow == InitWith({ <<e>> : e \in RowEntries })

SpecRow == InitRow /\ [][Next]_vars

(***************************************************************************)
(* Reading a state.                                                        *)
(***************************************************************************)
Finished == pc \in {"done", "panicked"}

\* the last entry the walk can reach: the first it cannot access, or the last
WalkEnd ==
  IF \E i \in 1..Len(files) : files[i].kind = "noaccess"
  THEN CHOOSE i \in 1..Len(files) :
         /\ files[i].kind = "noaccess"
         /\ \A j \in 1..(i - 1) : files[j].kind # "noaccess"
  ELSE Len(files)

IsTxt(i) == files[i].kind = "txt"

HeaderCount == Cardinality({ i \in 1..Len(output) : output[i].kind = "header" })

DataRows == SelectSeq(output, LAMBDA r : r.kind = "data")

\* the line the next iteration of the scan loop reads
AtLine == pc = "scan" /\ lineNo <= Len(files[idx].lines)

CurLine == files[idx].lines[lineNo]

\* parseRow was called on `line` and returned a record to write
IsRecord(res) ==
  /\ res # NoResult /\ ~res.panic /\ res.err = ""
  /\ (variant = "filter" => res.rec.Timestamp # <<>>)

(***************************************************************************)
(* C1.  Without filtering, the header row is written exactly once when at  *)
(* least one visited file opens and not at all when none does, and it      *)
(* precedes every data row, whatever files fail to open or fail in their   *)
(* scan.                                                                   *)
(***************************************************************************)
C1_HeaderExactlyOnce ==
  variant = "nofilter" =>
    /\ HeaderCount <= 1
    /\ \A i, j \in 1..Len(output) :
         output[i].kind = "header" /\ output[j].kind = "data" => i < j
    /\ pc = "done" =>
         (HeaderCount = 1 <=> \E i \in 1..(idx - 1) : IsTxt(i) /\ files[i].opens)

(***************************************************************************)
(* C2.  With filtering, once a data row is written the header row          *)
(* station_id,timestamp,<required columns> is the first row of the output. *)
(***************************************************************************)
C2_HeaderBeforeFirstRow ==
  (variant = "filter" /\ DataRows # <<>>) => output[1] = HeaderRow("filter")

(***************************************************************************)
(* C3.  Every line prefixed "S,", whatever the number of its fields, ends  *)
(* in a record, an error or the skip signal; at most one row is written    *)
(* for it and the scan goes on to the next line: no line aborts the run.   *)
(***************************************************************************)
C3_NoLineAbortsTheRun ==
  [][ (AtLine /\ HasPrefix(CurLine)) =>
        /\ ~record'.panic
        /\ pc' = "scan" /\ lineNo' = lineNo + 1
        /\ Len(output') <= Len(output) + 1 ]_vars

\* the row a line stands for, if any
RowsOfLine(l) ==
  LET r == parseRow(variant, l, cutoff)
  IN  IF HasPrefix(l) /\ ~r.panic /\ r.err = ""
         /\ (variant = "filter" => r.rec.Timestamp # <<>>)
      THEN <<DataRow(variant, r.rec)>> ELSE <<>>

RECURSIVE RowsOfLines(_)
RowsOfLines(ls) ==
  IF ls = <<>> THEN <<>> ELSE RowsOfLine(Head(ls)) \o RowsOfLines(Tail(ls))

RECURSIVE RowsOfFiles(_)
RowsOfFiles(n) ==
  IF n = 0 THEN <<>>
  ELSE RowsOfFiles(n - 1)
         \o (IF IsTxt(n) /\ files[n].opens THEN RowsOfLines(files[n].lines)
             ELSE <<>>)

(***************************************************************************)
(* C4.  The data rows of the output are, in order, the rows of exactly the *)
(* lines prefixed "S," that parse (and are not too old), file by file in   *)
(* visit order and line by line; a line without the prefix is never        *)
(* parsed.                                                                 *)
(***************************************************************************)
C4_RowsAreTheValidLines ==
  /\ Finished => DataRows = RowsOfFiles(WalkEnd)
  /\ (line # NoLine /\ ~HasPrefix(line)) => record = NoResult

\* file i has been processed and failed
FileFailed(i) ==
  /\ i < idx /\ IsTxt(i)
  /\ (~files[i].opens \/ files[i].readErr)

(***************************************************************************)
(* C5.  A file that cannot be opened, or whose scan fails, does not end    *)
(* the run: the rows written so far stay in the output and every later     *)
(* .txt file of the walk is still processed.                               *)
(***************************************************************************)
C5_LaterFilesProcessed ==
  [][ /\ Len(output) <= Len(output') /\ SubSeq(output', 1, Len(output)) = output
      /\ Finished' =>
           \A i \in 1..WalkEnd : FileFailed(i)' =>
             \A j \in (i + 1)..WalkEnd : IsTxt(j) => j < idx' ]_vars

(***************************************************************************)
(* What the description of the row parser says, written without the        *)
(* definitions of the model above.                                         *)
(***************************************************************************)
\* s without its leading "0" characters
StripZeros(s) ==
  LET z == CHOOSE k \in 0..Len(s) :
             /\ \A i \in 1..k : s[i] = "0"
             /\ (k = Len(s) \/ s[k + 1] # "0")
  IN  SubSeq(s, z + 1, Len(s))

\* one leading "0" exactly when the part is a single character
PadOne(x) == IF Len(x) = 1 THEN <<"0", x[1]>> ELSE x

\* YYYY-MM-DDTHH:MM:SS of the fields of a line (f[1] is field 0)
Stamp(f) ==
  f[8] \o <<"-">> \o PadOne(f[7]) \o <<"-">> \o PadOne(f[6]) \o <<"T">>
    \o PadOne(f[3]) \o <<":">> \o PadOne(f[4]) \o <<":">> \o PadOne(f[5])

\* t is strictly before u
Earlier(t, u) ==
  \E k \in 1..7 : t[k] < u[k] /\ \A j \in 1..(k - 1) : t[j] = u[j]

Names == { e.name : e \in measurementMap(variant) }

\* the complete triples of f, numbered from 0, whose ID pair maps to name
TriplesFor(f, name) ==
  { k \in 0..Len(f) :
      /\ 8 + 3 * k + 2 < Len(f)
      /\ \E e \in measurementMap(variant) :
           /\ e.mid = f[8 + 3 * k + 1] /\ e.pid = f[8 + 3 * k + 2]
           /\ e.name = name }

Max(S) == CHOOSE x \in S : \A y \in S : y <= x

\* the value field of triple k, "*" standing for no value when filtering
ValueOf(f, k) ==
  IF variant = "filter" /\ f[8 + 3 * k + 3] = <<"*">> THEN <<>>
  ELSE f[8 + 3 * k + 3]

(***************************************************************************)
(* C6.  With filtering, a line whose timestamp parses is skipped silently  *)
(* (no row, nothing logged) if and only if its time is strictly before the *)
(* cutoff; at the cutoff or later it produces exactly one row.             *)
(***************************************************************************)
C6_SkippedIffBeforeCutoff ==
  [][ ( /\ variant = "filter" /\ AtLine /\ HasPrefix(CurLine)
        /\ Len(Split(CurLine)) >= 8
        /\ ParseTime(Stamp(Split(CurLine))).ok ) =>
        /\ log' = log /\ pc' = "scan"
        /\ IF Earlier(ParseTime(Stamp(Split(CurLine))).t, cutoff)
           THEN output' = output
           ELSE /\ Len(output') = Len(output) + 1
                /\ SubSeq(output', 1, Len(output)) = output
                /\ output'[Len(output')].kind = "data"
                /\ output'[Len(output')].fields[2] = Stamp(Split(CurLine)) ]_vars

C6_Witness ==
  /\ variant = "filter" /\ HasPrefix(line) /\ Len(Split(line)) >= 8
  /\ ParseTime(Stamp(Split(line))).ok
  /\ ParseTime(Stamp(Split(line))).t = cutoff
  /\ Len(DataRows) = 1

(***************************************************************************)
(* C7.  The record of a line of at least 8 fields has field 1 without its  *)
(* leading zeros as station ID and the timestamp YYYY-MM-DDTHH:MM:SS of    *)
(* fields 7, 6, 5, 2, 3, 4, each part but the year padded with one "0"     *)
(* when it is a single character; S,0012,9,5,0,15,6,2023,... gives         *)
(* station 12 and 2023-06-15T09:05:00.                                     *)
(***************************************************************************)
C7_StationAndTimestamp ==
  (HasPrefix(line) /\ Len(Split(line)) >= 8) =>
    /\ record # NoResult /\ ~record.panic
    /\ variant = "nofilter" => IsRecord(record)
    /\ IsRecord(record) =>
         /\ record.rec.StationID = StripZeros(Split(line)[2])
         /\ record.rec.Timestamp = Stamp(Split(line))
         /\ SubSeq(Split(line), 1, 8) = SubSeq(ExampleFields, 1, 8) =>
              /\ record.rec.StationID = <<"1", "2">>
              /\ record.rec.Timestamp =
                   << "2", "0", "2", "3", "-", "0", "6", "-", "1", "5", "T",
                      "0", "9", ":", "0", "5", ":", "0", "0" >>

C7_Witness ==
  /\ HasPrefix(line) /\ Len(Split(line)) >= 8
  /\ SubSeq(Split(line), 1, 8) = SubSeq(ExampleFields, 1, 8)
  /\ IsRecord(record)
  /\ record.rec.StationID = <<"1", "2">>

(***************************************************************************)
(* C8.  The record's value for a column name is the value field of the     *)
(* last complete triple whose ID pair maps to the name ("*" becoming the   *)
(* empty string when filtering only); the name is absent when there is no  *)
(* such triple.                                                            *)
(***************************************************************************)
C8_LastTripleWins ==
  (HasPrefix(line) /\ IsRecord(record)) =>
    /\ DOMAIN record.rec.Values =
         { n \in Names : TriplesFor(Split(line), n) # {} }
    /\ \A n \in DOMAIN record.rec.Values :
         record.rec.Values[n] =
           ValueOf(Split(line), Max(TriplesFor(Split(line), n)))

C8_Witness ==
  /\ variant = "filter" /\ HasPrefix(line) /\ IsRecord(record)
  /\ TriplesFor(Split(line), "Temperature_Avg") = {0, 1}
  /\ Split(line)[11] = <<"5">> /\ Split(line)[14] = <<"*">>
  /\ record.rec.Values["Temperature_Avg"] = <<>>

(***************************************************************************)
(* C9.  A line of fewer than 7 fields makes parseRow fail with "invalid    *)
(* row", whatever its fields hold, and no row is written for it.           *)
(***************************************************************************)
C9_ShortRowRejected ==
  [][ (AtLine /\ HasPrefix(CurLine) /\ Len(Split(CurLine)) < 7) =>
        /\ record' = Result(ZeroRecord, "invalid row", FALSE)
        /\ output' = output
        /\ log' = Append(log, <<"Skipping line due to error", "invalid row">>)
        /\ pc' = "scan" /\ lineNo' = lineNo + 1 ]_vars

C9_Witness ==
  /\ HasPrefix(line) /\ Len(Split(line)) = 6
  /\ record.err = "invalid row"
  /\ DataRows = <<>>

(***************************************************************************)
(* C10.  Every data row has 2 + N fields, N the number of required         *)
(* columns: station ID, timestamp, then for each required column in order  *)
(* the record's value, or the empty string when the record has none; a     *)
(* name outside the required columns contributes no field.                 *)
(***************************************************************************)
C10_RowShape ==
  /\ \A i \in 1..Len(output) :
       output[i].kind = "data" =>
         Len(output[i].fields) = 2 + Len(requiredMeasurements(variant))
  /\ (HasPrefix(line) /\ IsRecord(record)) =>
       /\ DataRows # <<>>
       /\ LET r == DataRows[Len(DataRows)].fields
              req == requiredMeasurements(variant)
          IN  /\ r[1] = record.rec.StationID
              /\ r[2] = record.rec.Timestamp
              /\ \A j \in 1..Len(req) :
                   r[2 + j] = IF req[j] \in DOMAIN record.rec.Values
                              THEN record.rec.Values[req[j]] ELSE <<>>

C10_Witness ==
  /\ HasPrefix(line) /\ IsRecord(record)
  /\ DOMAIN record.rec.Values = {"Temperature_Min", "Temperature_Avg"}
  /\ DataRows # <<>>

====
